---- MODULE Spec2Model ----
(***************************************************************************)
(* A model of static-conversations: the GitHub API client of               *)
(* src/convo/api.py (GitHubAPI: the users / issues / issue_comments /      *)
(* nodes caches, _filter_fields, get_user, get_issue_comments, get_issues) *)
(* and the comment tree builder of src/convo/__init__.py (CommentManager:  *)
(* _parse_comments, _process_replies, __parse_comment_body).               *)
(*                                                                         *)
(* Python dicts are objects with identity: every dict the client builds    *)
(* lives in `heap` under an address, and the caches hold addresses, so     *)
(* that "the same instance" and "an equal copy" are different things.      *)
(* A JSON object is a function from its keys (strings) to its values.      *)
(* A text is a sequence of characters, "CR" and "LF" being the two line    *)
(* ending characters.                                                      *)
(***************************************************************************)
EXTENDS Integers, Sequences, FiniteSets, TLC

VARIABLES
    repo,            \* what the GitHub API answers with (the repository's content)
    heap,            \* address -> dict, the dicts the client's caches reach
    users,           \* GitHubAPI.users: login -> address
    nodes,           \* GitHubAPI.nodes: node_id -> address
    issues,          \* GitHubAPI.issues: issue number -> address
    issues_order,    \* the insertion order of the keys of GitHubAPI.issues
    issue_comments,  \* GitHubAPI.issue_comments: key -> address
    user_fetches,    \* login -> answered GET /users/{login} requests so far
    comments_done,   \* the issue numbers get_issue_comments has returned for
    last,            \* the last call: its name, arguments, requests and result
    parsed,          \* the results of the last runs of _parse_comments
    ff,              \* one call of _filter_fields: its arguments and its result
    text             \* one body: as the API gave it and as the tree builder stores it

vars == <<repo, heap, users, nodes, issues, issues_order, issue_comments,
          user_fetches, comments_done, last, parsed, ff, text>>

-----------------------------------------------------------------------------
(* Bounds of the model.                                                    *)

\* The longest issues response (entries of GET /repos/{repo}/issues).
MaxListed == 2
\* A call's first MaxFailAt requests are the ones that may fail.
MaxFailAt == 2
\* The most replies one issue of a drawn repository has.
MaxReplies == 2

-----------------------------------------------------------------------------
(* Dicts and sequences.                                                    *)

EmptyDict == [k \in {} |-> 0]

Put(d, k, v) == [x \in DOMAIN d \cup {k} |-> IF x = k THEN v ELSE d[x]]

Del(d, k) == [x \in DOMAIN d \ {k} |-> d[x]]

Restrict(d, ks) == [x \in DOMAIN d \cap ks |-> d[x]]

Range(s) == {s[i] : i \in DOMAIN s}

\* The sequences without repetition over S of length at most n.
DistinctSeqs(S, n) ==
    {s \in UNION {[1..k -> S] : k \in 0..n} :
        \A i, j \in DOMAIN s : i # j => s[i] # s[j]}

-----------------------------------------------------------------------------
(* What the GitHub API answers with.  The raw objects carry the keys the   *)
(* client keeps and keys it must drop ("url", "state", "site_admin").      *)

Logins == {"alice", "bob", "carol"}

\* A body with front matter: its metadata block and the text after it.
FrontMatter(meta, content) == [meta |-> meta, content |-> content]

PageMeta(page) == [k \in {"page"} |-> page]

\* An embedded user object of an issue or of a comment.
EmbeddedUser(login) == [tag |-> "raw", login |-> login]

RawUser(login) ==
    [login |-> login, id |-> 1, node_id |-> <<"user", login, 0>>,
     avatar_url |-> "avatar", name |-> "name", url |-> "url",
     site_admin |-> "no"]

RawIssue(number, id, login, body) ==
    [id |-> id, node_id |-> <<"issue", "", number>>, number |-> number,
     title |-> "title", body |-> body, user |-> EmbeddedUser(login),
     url |-> "url", state |-> "open"]

RawPullRequest(number, id, login, body) ==
    Put(RawIssue(number, id, login, body), "pull_request", "pull")

RawComment(id, login, body) ==
    [id |-> id, node_id |-> <<"comment", "", id>>, body |-> body,
     user |-> EmbeddedUser(login), author_association |-> "NONE",
     url |-> "url"]

\* A repository: its entries of the issues endpoint by number, the comments
\* of each and the users.
Repository(entries, comments) ==
    [issue |-> entries, comments |-> comments,
     user |-> [u \in Logins |-> RawUser(u)]]

\* The repository the client talks to: issues 1 and 2 on one page (written
\* "/a/" and "a"), pull request 3, alice and bob on both issues' threads and
\* carol on the pull request alone.
TheRepository ==
    Repository(
        (1 :> RawIssue(1, 11, "alice",
                       FrontMatter(PageMeta(<<"/", "a", "/">>), <<"x", "CR", "LF", "y">>))
         @@ 2 :> RawIssue(2, 12, "bob", FrontMatter(PageMeta(<<"a">>), <<"y">>))
         @@ 3 :> RawPullRequest(3, 13, "carol", FrontMatter(PageMeta(<<"b">>), <<"z">>))),
        (1 :> <<RawComment(21, "bob", <<"t", "CR", "LF">>), RawComment(22, "alice", <<"u">>)>>
         @@ 2 :> <<RawComment(23, "alice", <<"v">>)>>
         @@ 3 :> <<RawComment(24, "carol", <<"w">>)>>))

Numbers == {1, 2, 3}

\* The issues responses: the entries listed and their order differ from one
\* request to the next (issues are opened and closed).
Listings == DistinctSeqs(Numbers, MaxListed)

-----------------------------------------------------------------------------
(* The client.  A handler's run is a chain of steps over a snapshot S of   *)
(* the client (its caches, the heap, the requests sent so far, and err     *)
(* once an exception is on its way to the caller: every later step of the  *)
(* handler is then skipped).  A step yields [S |-> the snapshot after it,  *)
(* val |-> what it returns].                                               *)

UNIVERSAL_KEYS == {"id", "node_id", "html_url", "user", "created_at", "updated_at"}

IssueFilterKeys == {"number", "title", "body", "labels", "locked", "active_lock_reason"}

UserFilterKeys == {"login", "avatar_url", "name", "bio"}

CommentFilterKeys == {"body", "user", "author_association"}

\* A request path.
UserPath(username) == [kind |-> "users", login |-> username, number |-> 0]
IssuesPath == [kind |-> "issues", login |-> "", number |-> 0]
CommentsPath(issue_number) == [kind |-> "comments", login |-> "", number |-> issue_number]

\* A reference to the dict at an address: what a field holds once it is
\* bound to an object of the heap.
Ref(a) == [tag |-> "ref", addr |-> a]

\* The address of a new dict: one no dict of the heap has (the heap's
\* addresses are 1..n), so a new dict never shares its identity with another.
Alloc(S) == Cardinality(DOMAIN S.heap) + 1

\* An exception leaves the handler.
Raise(S) == [S EXCEPT !.err = TRUE]

Result(S, v) == [S |-> S, val |-> v]

\* How a request can fail: "raise", session.send or resp.json() raises (no
\* connection, a body that is not JSON); "status", the API answers with a
\* status that is not 2xx and its error object as the body.
FailureKinds == {"raise", "status"}

\* The body of an answer that is not 2xx.
ErrorBody == [message |-> "Not Found", documentation_url |-> "url"]

\* A string where the code expects a dict.
Str(s) == [str |-> s]

IsStr(x) == DOMAIN x = {"str"}

\* for x in resp, resp being the error object: a dict gives its keys.
ErrorItems == <<Str("message"), Str("documentation_url")>>

\* A request of the log and what came back: "json" (a 2xx answer), "error"
\* (the error object) or "none".
Entry(path, answer) == [path |-> path, ok |-> answer = "json", answer |-> answer]

\* session.send and resp.json(): the request is sent; the failAt-th request
\* of the call fails the way S.kind says, every other is answered.  _send
\* does not look at the status: the error object goes to the handler as any
\* other body.
Send(S, path) ==
    IF S.failAt = 1 /\ S.kind = "raise"
    THEN [S EXCEPT !.err = TRUE, !.failAt = 0,
                   !.log = Append(@, Entry(path, "none"))]
    ELSE IF S.failAt = 1
    THEN [S EXCEPT !.failAt = 0, !.answer = "error",
                   !.log = Append(@, Entry(path, "error"))]
    ELSE [S EXCEPT !.failAt = IF @ = 0 THEN 0 ELSE @ - 1, !.answer = "json",
                   !.log = Append(@, Entry(path, "json"))]

\* Every key of the object is kept.
AllKeys(resp, filter_keys) == DOMAIN resp

\* The key set _filter_fields keeps of an object.
FilteredKeys(resp, filter_keys) ==
    {key \in DOMAIN resp : key \in (UNIVERSAL_KEYS \cup filter_keys)}

\* A lookup that never finds the user.
NeverCached(S, username) == FALSE

\* The cache lookup of get_user.
UserCached(S, username) == username \in DOMAIN S.users

\* filtered = {...}: the new dict takes the first free address.
NewDict(S, d) == [S EXCEPT !.heap = Put(@, Alloc(S), d)]

RECURSIVE get_user(_, _)

\* The dict at a keeps the embedded user object of the response.
KeepEmbeddedUser(r, a) ==
    IF r.S.err THEN Result(r.S, 0) ELSE Result(r.S, a)

\* filtered["user"] = user, r being what get_user gave for the dict at a.
BindUser(r, a) ==
    IF r.S.err THEN Result(r.S, 0)
    ELSE Result([r.S EXCEPT !.heap[a] = Put(@, "user", Ref(r.val))], a)

\* No user is looked up: the filtered dict keeps the embedded user object.
FilterKeepingUser(S, resp, filter_keys) ==
    IF S.err THEN Result(S, 0)
    ELSE IF IsStr(resp) THEN Result(Raise(S), 0)
    ELSE Result(NewDict(S, Restrict(resp, FilteredKeys(resp, filter_keys))), Alloc(S))

\* GitHubAPI._filter_fields: val is the address of the filtered dict.  A
\* string has no items(): an AttributeError.
_filter_fields(S, resp, filter_keys) ==
    IF S.err THEN Result(S, 0)
    ELSE IF IsStr(resp) THEN Result(Raise(S), 0)
    ELSE IF "user" \in FilteredKeys(resp, filter_keys)
    THEN BindUser(get_user(NewDict(S, Restrict(resp, FilteredKeys(resp, filter_keys))),
                           resp["user"].login),
                  Alloc(S))
    ELSE Result(NewDict(S, Restrict(resp, FilteredKeys(resp, filter_keys))), Alloc(S))

\* GitHubAPI._filter_user.
_filter_user(S, resp) == _filter_fields(S, resp, UserFilterKeys)

\* The user is stored also without a node_id or a login, under a key that
\* stands for the missing one.
StoreUserLoosely(r) ==
    IF r.S.err THEN Result(r.S, 0)
    ELSE Result([r.S EXCEPT
                     !.nodes = Put(@, IF "node_id" \in DOMAIN r.S.heap[r.val]
                                      THEN r.S.heap[r.val]["node_id"]
                                      ELSE <<"user", "", 0>>, r.val),
                     !.users = Put(@, IF "login" \in DOMAIN r.S.heap[r.val]
                                      THEN r.S.heap[r.val]["login"] ELSE "", r.val)],
                r.val)

\* self.nodes[user["node_id"]] = user; self.users[user["login"]] = user,
\* r being the filtered user.
StoreUser(r) ==
    IF r.S.err THEN Result(r.S, 0)
    ELSE IF "node_id" \notin DOMAIN r.S.heap[r.val] THEN Result(Raise(r.S), 0)
    ELSE IF "login" \notin DOMAIN r.S.heap[r.val]
    THEN Result(Raise([r.S EXCEPT !.nodes = Put(@, r.S.heap[r.val]["node_id"], r.val)]), 0)
    ELSE Result([r.S EXCEPT !.nodes = Put(@, r.S.heap[r.val]["node_id"], r.val),
                            !.users = Put(@, r.S.heap[r.val]["login"], r.val)],
                r.val)

\* The cache miss of get_user, S being the client once the request is sent.
FetchUser(S, username) ==
    IF S.err THEN Result(S, 0)
    ELSE IF S.answer = "error" THEN StoreUser(_filter_user(S, ErrorBody))
    ELSE IF username \notin DOMAIN repo.user THEN Result(Raise(S), 0)
    ELSE StoreUser(_filter_user([S EXCEPT !.user_fetches[username] = @ + 1],
                                repo.user[username]))

\* GitHubAPI.get_user: val is the address of the user's dict.
get_user(S, username) ==
    IF S.err THEN Result(S, 0)
    ELSE IF UserCached(S, username) THEN Result(S, S.users[username])
    ELSE FetchUser(Send(S, UserPath(username)), username)

\* comments.append(filtered), r being what _filter_fields gave.
Collect(r, list) == Result(r.S, Append(list, r.val))

\* GitHubAPI._filter_issue_comments from the i-th comment of the response
\* on, acc being [S, val]: the client and the comments filtered so far.
RECURSIVE _filter_issue_comments(_, _, _)
_filter_issue_comments(acc, resp, i) ==
    IF acc.S.err \/ i > Len(resp) THEN acc
    ELSE _filter_issue_comments(
             Collect(_filter_fields(acc.S, resp[i], CommentFilterKeys), acc.val),
             resp, i + 1)

\* The key get_issue_comments looks an issue up by, and the key it stores a
\* comment under: a number and a pair, which are never equal (here a
\* 1-tuple and a 2-tuple).
CommentsLookupKey(issue_number) == <<issue_number>>

CommentStoreKey(issue_number, comment_id) == <<issue_number, comment_id>>

\* One turn of the loop of get_issue_comments: the comment at address a.
StoreComment(acc, issue_number, a) ==
    IF "node_id" \notin DOMAIN acc.S.heap[a] THEN Result(Raise(acc.S), acc.val)
    ELSE IF "id" \notin DOMAIN acc.S.heap[a]
    THEN Result(Raise([acc.S EXCEPT !.nodes = Put(@, acc.S.heap[a]["node_id"], a)]),
                acc.val)
    ELSE Result([acc.S EXCEPT
                     !.nodes = Put(@, acc.S.heap[a]["node_id"], a),
                     !.issue_comments =
                         Put(@, CommentStoreKey(issue_number, acc.S.heap[a]["id"]), a)],
                Append(acc.val, a))

\* The loop of get_issue_comments that stores the filtered comments.
RECURSIVE StoreComments(_, _, _, _)
StoreComments(acc, issue_number, filtered, i) ==
    IF acc.S.err \/ i > Len(filtered) THEN acc
    ELSE StoreComments(StoreComment(acc, issue_number, filtered[i]),
                       issue_number, filtered, i + 1)

\* return comments, r being what the storing loop gave.
CommentsDone(r, issue_number) ==
    IF r.S.err THEN Result(r.S, <<>>)
    ELSE Result([r.S EXCEPT !.comments_done = @ \cup {issue_number}], r.val)

\* The storing loop over the comments f filtered.
StoreFiltered(f, issue_number) ==
    IF f.S.err THEN Result(f.S, <<>>)
    ELSE CommentsDone(StoreComments(Result(f.S, <<>>), issue_number, f.val, 1),
                      issue_number)

\* The cache miss of get_issue_comments, S being the client once the
\* request is sent.
FetchComments(S, issue_number) ==
    IF S.err THEN Result(S, <<>>)
    ELSE IF S.answer = "error"
    THEN StoreFiltered(_filter_issue_comments(Result(S, <<>>), ErrorItems, 1),
                       issue_number)
    ELSE IF issue_number \notin DOMAIN repo.comments THEN Result(Raise(S), <<>>)
    ELSE StoreFiltered(
             _filter_issue_comments(Result(S, <<>>), repo.comments[issue_number], 1),
             issue_number)

\* No request is sent for the comments: every issue gets an empty list.
CommentsWithoutRequest(S, issue_number) == Result(S, <<>>)

\* GitHubAPI.get_issue_comments: val is the list of the comments' addresses.
get_issue_comments(S, issue_number) ==
    IF S.err THEN Result(S, <<>>)
    ELSE IF CommentsLookupKey(issue_number) \in DOMAIN S.issue_comments
    THEN Result(S, <<S.issue_comments[CommentsLookupKey(issue_number)]>>)
    ELSE FetchComments(Send(S, CommentsPath(issue_number)), issue_number)

\* No entry is taken for a pull request.
NeverPullRequest(issue) == FALSE

\* if "pull_request" in issue: continue.  (On a string, a key of the error
\* object, `in` looks for a substring, which neither key has.)
IsPullRequest(issue) == "pull_request" \in DOMAIN issue

\* GitHubAPI._filter_issues from the i-th entry of the response on, acc
\* being [S, val]: the client and the issues filtered so far.
RECURSIVE _filter_issues(_, _, _)
_filter_issues(acc, resp, i) ==
    IF acc.S.err \/ i > Len(resp) THEN acc
    ELSE IF IsPullRequest(resp[i])
    THEN _filter_issues(acc, resp, i + 1)
    ELSE _filter_issues(
             Collect(_filter_fields(acc.S, resp[i], IssueFilterKeys), acc.val),
             resp, i + 1)

\* The issues map is started anew with the issue.
ResetIssues(S, number, a) ==
    [S EXCEPT !.issues = Put(EmptyDict, number, a), !.issues_order = <<number>>]

\* self.issues[number] = issue: a new key goes to the end of the dict, a
\* key it has keeps its place.
SetIssue(S, number, a) ==
    [S EXCEPT !.issues = Put(@, number, a),
              !.issues_order = IF number \in DOMAIN S.issues THEN @
                               ELSE Append(@, number)]

\* issue["comments"] = ..., r being what get_issue_comments gave for the
\* issue at address a.
AttachComments(r, a) ==
    IF r.S.err THEN r.S
    ELSE [r.S EXCEPT !.heap[a] = Put(@, "comments", r.val)]

\* One turn of the loop of get_issues: the issue at address a.
StoreIssue(S, a) ==
    IF "node_id" \notin DOMAIN S.heap[a] THEN Raise(S)
    ELSE IF "number" \notin DOMAIN S.heap[a]
    THEN Raise([S EXCEPT !.nodes = Put(@, S.heap[a]["node_id"], a)])
    ELSE AttachComments(
             get_issue_comments(
                 SetIssue([S EXCEPT !.nodes = Put(@, S.heap[a]["node_id"], a)],
                          S.heap[a]["number"], a),
                 S.heap[a]["number"]),
             a)

\* The loop of get_issues over the filtered issues.
RECURSIVE StoreIssues(_, _, _)
StoreIssues(S, filtered, i) ==
    IF S.err \/ i > Len(filtered) THEN S
    ELSE StoreIssues(StoreIssue(S, filtered[i]), filtered, i + 1)

\* The response of the issues endpoint that lists the entries `listing`.
IssuesResponse(listing) == [i \in DOMAIN listing |-> repo.issue[listing[i]]]

\* The loop of get_issues over the issues f filtered.
StoreAll(f) == StoreIssues(f.S, f.val, 1)

\* get_issues once the request is sent.
FetchIssues(S, listing) ==
    IF S.err THEN S
    ELSE IF S.answer = "error"
    THEN StoreAll(_filter_issues(Result(S, <<>>), ErrorItems, 1))
    ELSE StoreAll(_filter_issues(Result(S, <<>>), IssuesResponse(listing), 1))

\* GitHubAPI.get_issues.
get_issues(S, listing) ==
    IF S.err THEN S
    ELSE FetchIssues(Send(S, IssuesPath), listing)

-----------------------------------------------------------------------------
(* The calls on the client, as actions.                                    *)

\* The client as a call finds it; the failAt-th request of the call fails
\* (0: none does).
Snapshot(failAt) ==
    [heap |-> heap, users |-> users, nodes |-> nodes, issues |-> issues,
     issues_order |-> issues_order, issue_comments |-> issue_comments,
     user_fetches |-> user_fetches, comments_done |-> comments_done,
     log |-> <<>>, failAt |-> failAt, kind |-> "raise", answer |-> "json",
     err |-> FALSE]

\* The same, the failAt-th request failing the way `kind` says.
SnapshotOf(failAt, kind) == [Snapshot(failAt) EXCEPT !.kind = kind]

\* The addresses a dict holds: its comments and its user.
CommentsOf(d) == IF "comments" \in DOMAIN d THEN Range(d["comments"]) ELSE {}

UserOf(d) ==
    IF "user" \in DOMAIN d /\ d["user"].tag = "ref" THEN {d["user"].addr} ELSE {}

\* The dicts the caches reach: every other dict of the call is garbage.
Live(S) ==
    LET roots == Range(S.users) \cup Range(S.nodes) \cup Range(S.issues)
                     \cup Range(S.issue_comments)
        held == roots \cup UNION {CommentsOf(S.heap[a]) : a \in roots}
    IN  held \cup UNION {UserOf(S.heap[a]) : a \in held}

LoginOrder == <<"alice", "bob", "carol">>

\* The logins of a set in the order of LoginOrder.
SortedLogins(set) ==
    LET InSet(u) == u \in set IN SelectSeq(LoginOrder, InSet)

KeyBefore(k, l) == k[1] < l[1] \/ (k[1] = l[1] /\ k[2] < l[2])

\* The comment keys of a set, by issue number and then by comment id.
RECURSIVE SortedKeys(_)
SortedKeys(set) ==
    IF set = {} THEN <<>>
    ELSE LET x == CHOOSE y \in set : \A z \in set \ {y} : KeyBefore(y, z)
         IN  <<x>> \o SortedKeys(set \ {x})

\* The numbers of 1..n that are in a set, in ascending order.
Ascending(set, n) ==
    LET InSet(a) == a \in set IN SelectSeq([i \in 1..n |-> i], InSet)

RECURSIVE Concat(_)
Concat(seqs) == IF seqs = <<>> THEN <<>> ELSE Head(seqs) \o Concat(Tail(seqs))

\* An address is a dict's identity and nothing more: the live dicts are
\* numbered 1, 2, ... in the order a walk of the caches meets them (users by
\* login, the issues in the order of their keys, each followed by its
\* comments, the stored comments by key, then the rest), so that two heaps
\* that differ only in where their dicts lie are one state.
Walk(S) ==
    LET us == SortedLogins(DOMAIN S.users)
        cs == SortedKeys(DOMAIN S.issue_comments)
        issueWalk(n) == <<S.issues[n]>> \o
                        (IF "comments" \in DOMAIN S.heap[S.issues[n]]
                         THEN S.heap[S.issues[n]]["comments"] ELSE <<>>)
    IN  [i \in DOMAIN us |-> S.users[us[i]]]
        \o Concat([i \in DOMAIN S.issues_order |-> issueWalk(S.issues_order[i])])
        \o [i \in DOMAIN cs |-> S.issue_comments[cs[i]]]
        \o Ascending(Live(S), Cardinality(DOMAIN S.heap))

\* A walk without the second and later visits of a dict.
RECURSIVE Uniq(_, _, _)
Uniq(walk, i, met) ==
    IF i > Len(walk) THEN met
    ELSE Uniq(walk, i + 1, IF walk[i] \in Range(met) THEN met ELSE Append(met, walk[i]))

\* The number of each live dict: its place in the walk.
Ranks(met) == [a \in Range(met) |-> CHOOSE i \in DOMAIN met : met[i] = a]

RenameDict(rank, d) ==
    [key \in DOMAIN d |->
        IF key = "user" /\ d[key].tag = "ref" THEN Ref(rank[d[key].addr])
        ELSE IF key = "comments" THEN [i \in DOMAIN d[key] |-> rank[d[key][i]]]
        ELSE d[key]]

RenameMap(rank, m) == [k \in DOMAIN m |-> rank[m[k]]]

NoCall == [op |-> "none", login |-> "", number |-> 0, listing |-> <<>>,
           ok |-> TRUE, ret |-> <<>>, log |-> <<>>]

\* The live dicts under their numbers in the walk.
Renamed(S, met, rank, call, ret) ==
    [heap |-> [b \in DOMAIN met |-> RenameDict(rank, S.heap[met[b]])],
     users |-> RenameMap(rank, S.users),
     nodes |-> RenameMap(rank, S.nodes),
     issues |-> RenameMap(rank, S.issues),
     issues_order |-> S.issues_order,
     issue_comments |-> RenameMap(rank, S.issue_comments),
     user_fetches |-> S.user_fetches,
     comments_done |-> S.comments_done,
     last |-> [call EXCEPT !.ok = ~S.err, !.log = S.log,
                           !.ret = IF S.err THEN <<>> ELSE RenameMap(rank, ret)]]

Numbered(S, met, call, ret) == Renamed(S, met, Ranks(met), call, ret)

\* The call is over: what it did to the client stays, also when it raised.
Outcome(S, call, ret) == Numbered(S, Uniq(Walk(S), 1, <<>>), call, ret)

Commit(post) ==
    /\ heap' = post.heap
    /\ users' = post.users
    /\ nodes' = post.nodes
    /\ issues' = post.issues
    /\ issues_order' = post.issues_order
    /\ issue_comments' = post.issue_comments
    /\ user_fetches' = post.user_fetches
    /\ comments_done' = post.comments_done
    /\ last' = post.last

ReturnUser(r, call) == Outcome(r.S, call, <<r.val>>)

GetUserOutcome(username, failAt) ==
    ReturnUser(get_user(Snapshot(failAt), username),
               [NoCall EXCEPT !.op = "get_user", !.login = username])

GetUser(username, failAt) ==
    \E post \in {GetUserOutcome(username, failAt)} :
        /\ Commit(post)
        /\ UNCHANGED <<repo, parsed, ff, text>>

ReturnComments(r, call) == Outcome(r.S, call, r.val)

GetIssueCommentsOutcome(issue_number, failAt) ==
    ReturnComments(get_issue_comments(Snapshot(failAt), issue_number),
                   [NoCall EXCEPT !.op = "get_issue_comments", !.number = issue_number])

GetIssueComments(issue_number, failAt) ==
    \E post \in {GetIssueCommentsOutcome(issue_number, failAt)} :
        /\ Commit(post)
        /\ UNCHANGED <<repo, parsed, ff, text>>

\* get_issues returns self.issues: ret lists the dicts of the map in the
\* order of its keys; listing is the response, when there was one.
ReturnIssues(S, call) ==
    Outcome(S, call, [i \in DOMAIN S.issues_order |-> S.issues[S.issues_order[i]]])

GetIssuesOutcome(listing, failAt) ==
    ReturnIssues(get_issues(Snapshot(failAt), listing),
                 [NoCall EXCEPT !.op = "get_issues",
                                !.listing = IF failAt = 1 THEN <<>> ELSE listing])

GetIssues(listing, failAt) ==
    \E post \in {GetIssuesOutcome(listing, failAt)} :
        /\ Commit(post)
        /\ UNCHANGED <<repo, parsed, ff, text>>

NoParse ==
    [runs |-> 0,
     first |-> [ok |-> TRUE, flat |-> EmptyDict, mapping |-> EmptyDict],
     latest |-> [ok |-> TRUE, flat |-> EmptyDict, mapping |-> EmptyDict]]

NoFilter == [done |-> FALSE]

NoText == [done |-> FALSE]

\* GitHubAPI.__init__: the caches are empty.
Init ==
    /\ repo = TheRepository
    /\ heap = EmptyDict
    /\ users = EmptyDict
    /\ nodes = EmptyDict
    /\ issues = EmptyDict
    /\ issues_order = <<>>
    /\ issue_comments = EmptyDict
    /\ user_fetches = [u \in Logins |-> 0]
    /\ comments_done = {}
    /\ last = NoCall
    /\ parsed = NoParse
    /\ ff = NoFilter
    /\ text = NoText

Next ==
    \/ \E username \in Logins, failAt \in 0..MaxFailAt : GetUser(username, failAt)
    \/ \E issue_number \in Numbers, failAt \in 0..MaxFailAt :
           GetIssueComments(issue_number, failAt)
    \/ \E listing \in Listings, failAt \in 0..MaxFailAt : GetIssues(listing, failAt)

Spec == Init /\ [][Next]_vars

-----------------------------------------------------------------------------
(* The same calls, a request failing either way: by an exception of the    *)
(* transport or of resp.json(), or by an answer that is not 2xx.           *)

GetUserFailing(username, failAt, kind) ==
    \E post \in {ReturnUser(get_user(SnapshotOf(failAt, kind), username),
                            [NoCall EXCEPT !.op = "get_user", !.login = username])} :
        /\ Commit(post)
        /\ UNCHANGED <<repo, parsed, ff, text>>

GetIssueCommentsFailing(issue_number, failAt, kind) ==
    \E post \in {ReturnComments(
                     get_issue_comments(SnapshotOf(failAt, kind), issue_number),
                     [NoCall EXCEPT !.op = "get_issue_comments",
                                    !.number = issue_number])} :
        /\ Commit(post)
        /\ UNCHANGED <<repo, parsed, ff, text>>

GetIssuesFailing(listing, failAt, kind) ==
    \E post \in {ReturnIssues(
                     get_issues(SnapshotOf(failAt, kind), listing),
                     [NoCall EXCEPT !.op = "get_issues",
                                    !.listing = IF failAt = 1 THEN <<>> ELSE listing])} :
        /\ Commit(post)
        /\ UNCHANGED <<repo, parsed, ff, text>>

\* The failures of a call: none (failAt = 0), or its failAt-th request in
\* one of the two ways.
Failures ==
    {f \in [failAt : 0..MaxFailAt, kind : FailureKinds] :
        f.failAt = 0 => f.kind = "raise"}

\* The caller goes on to its next call when a call returned; an exception
\* ends the run (load_comments and the console script catch none).
NextStatus ==
    /\ last.ok
    /\ \/ \E username \in Logins, f \in Failures :
              GetUserFailing(username, f.failAt, f.kind)
       \/ \E issue_number \in Numbers, f \in Failures :
              GetIssueCommentsFailing(issue_number, f.failAt, f.kind)
       \/ \E listing \in Listings, f \in Failures :
              GetIssuesFailing(listing, f.failAt, f.kind)

SpecStatus == Init /\ [][NextStatus]_vars

-----------------------------------------------------------------------------
(* _filter_fields on its own: one call on a fresh client, for every raw    *)
(* object and every allow-list of a bounded family.                        *)

\* The keys a raw object is made of: universal keys, keys of the
\* allow-lists and keys nothing keeps.
RawKeys == {"id", "user", "body", "number", "url"}

RawObjects ==
    {[key \in keys |-> IF key = "user" THEN EmbeddedUser("alice") ELSE "value"] :
        keys \in SUBSET RawKeys}

\* The allow-lists: keys the raw objects have and one they never have.
AllowLists == SUBSET {"body", "number", "labels"}

\* What the call gave: whether it returned, and the keys of the dict it
\* returned.
Filtered(r, call) ==
    [client |-> Outcome(r.S, call, <<>>),
     ok |-> ~r.S.err,
     keys |-> IF r.S.err THEN {} ELSE DOMAIN r.S.heap[r.val],
     user |-> IF ~r.S.err /\ "user" \in DOMAIN r.S.heap[r.val]
              THEN r.S.heap[r.val]["user"].tag ELSE "none"]

FilterFieldsOutcome(failAt) ==
    Filtered(_filter_fields(Snapshot(failAt), ff.resp, ff.filter_keys),
             [NoCall EXCEPT !.op = "_filter_fields"])

FilterFields(failAt) ==
    /\ ~ff.done
    /\ \E post \in {FilterFieldsOutcome(failAt)} :
          /\ Commit(post.client)
          /\ ff' = [ff EXCEPT !.done = TRUE, !.ok = post.ok, !.keys = post.keys,
                              !.user = post.user]
    /\ UNCHANGED <<repo, parsed, text>>

InitFilter ==
    /\ repo = TheRepository
    /\ heap = EmptyDict
    /\ users = EmptyDict
    /\ nodes = EmptyDict
    /\ issues = EmptyDict
    /\ issues_order = <<>>
    /\ issue_comments = EmptyDict
    /\ user_fetches = [u \in Logins |-> 0]
    /\ comments_done = {}
    /\ last = NoCall
    /\ parsed = NoParse
    /\ text = NoText
    /\ ff \in {[done |-> FALSE, resp |-> resp, filter_keys |-> filter_keys,
                ok |-> TRUE, keys |-> {}, user |-> "none"] :
                  resp \in RawObjects, filter_keys \in AllowLists}

NextFilter == \E failAt \in 0..MaxFailAt : FilterFields(failAt)

SpecFilter == InitFilter /\ [][NextFilter]_vars

-----------------------------------------------------------------------------
(* The comment tree builder (CommentManager).  It works on the dicts of    *)
(* the heap through a frame P: the heap, err once an exception is on its   *)
(* way out, and the two dicts it builds, processed (id -> address) and     *)
(* comment_mapping (page -> ids).                                          *)

\* The most runs of _parse_comments on one issue map.
MaxRuns == 2

\* The characters str.strip("/ ") removes.
StripChars == {"/", " "}

RECURSIVE LStrip(_)
LStrip(s) == IF s # <<>> /\ Head(s) \in StripChars THEN LStrip(Tail(s)) ELSE s

RECURSIVE RStrip(_)
RStrip(s) ==
    IF s # <<>> /\ s[Len(s)] \in StripChars THEN RStrip(SubSeq(s, 1, Len(s) - 1)) ELSE s

\* str.strip("/ ").
Strip(s) == RStrip(LStrip(s))

\* str.replace("\r\n", "\n"): the occurrences from left to right.
RECURSIVE ReplaceCRLF(_)
ReplaceCRLF(s) ==
    IF s = <<>> THEN <<>>
    ELSE IF Len(s) >= 2 /\ s[1] = "CR" /\ s[2] = "LF"
    THEN <<"LF">> \o ReplaceCRLF(SubSeq(s, 3, Len(s)))
    ELSE <<s[1]>> \o ReplaceCRLF(Tail(s))

\* dict.update.
Update(d, e) == [k \in DOMAIN d \cup DOMAIN e |-> IF k \in DOMAIN e THEN e[k] ELSE d[k]]

\* A user field once it is the commenter's username.
UserName(login) == [tag |-> "name", login |-> login]

Fail(P) == [P EXCEPT !.err = TRUE]

\* The dicts are used as they are: no copy is made.
SameObjects(S, comments) == Result(S, comments)

\* Only the issues' dicts are copied: the copies hold the comments and the
\* users of the originals.
ShallowCopy(S, comments) ==
    Result([S EXCEPT !.heap =
                [b \in 1..(Cardinality(DOMAIN S.heap) + Len(comments)) |->
                    IF b <= Cardinality(DOMAIN S.heap) THEN S.heap[b]
                    ELSE S.heap[comments[b - Cardinality(DOMAIN S.heap)]]]],
           [i \in DOMAIN comments |-> Cardinality(DOMAIN S.heap) + i])

\* deepcopy: every dict gets a copy at a new address (the dict at a, of n
\* dicts, at a + n), the copies referring to copies; val lists the copies of
\* `comments`.  The dicts the issues do not reach are copied as well, which
\* nothing observes.
deepcopy(S, comments) ==
    Result([S EXCEPT !.heap =
                [b \in 1..(2 * Cardinality(DOMAIN S.heap)) |->
                    IF b <= Cardinality(DOMAIN S.heap) THEN S.heap[b]
                    ELSE RenameDict([a \in DOMAIN S.heap |-> a + Cardinality(DOMAIN S.heap)],
                                    S.heap[b - Cardinality(DOMAIN S.heap)])]],
           [i \in DOMAIN comments |-> comments[i] + Cardinality(DOMAIN S.heap)])

\* x["user"] = x["user"]["login"] on the dict at a: a KeyError without the
\* key, a TypeError when the field is a username already.
ReplaceUser(P, a) ==
    IF P.err THEN P
    ELSE IF "user" \notin DOMAIN P.heap[a] THEN Fail(P)
    ELSE IF P.heap[a]["user"].tag = "name" THEN Fail(P)
    ELSE IF P.heap[a]["user"].tag = "raw"
    THEN [P EXCEPT !.heap[a] = Put(@, "user", UserName(P.heap[a]["user"].login))]
    ELSE IF "login" \notin DOMAIN P.heap[P.heap[a]["user"].addr] THEN Fail(P)
    ELSE [P EXCEPT !.heap[a] =
              Put(@, "user", UserName(P.heap[P.heap[a]["user"].addr]["login"]))]

\* comment["body"] = comment["body"].replace(...); comment["parent"] = ...
SetReplyFields(P, a, parent_comment) ==
    IF P.err THEN P
    ELSE IF "body" \notin DOMAIN P.heap[a] THEN Fail(P)
    ELSE [P EXCEPT !.heap[a] =
              Put(Put(@, "body", ReplaceCRLF(@["body"])), "parent", parent_comment)]

\* processed[comment["id"]] = comment in _process_replies, acc being its
\* dict so far (replies, and keys: its keys in insertion order) and P the
\* frame once the comment's fields are set.
KeepReply(acc, P, a) ==
    IF P.err THEN [acc EXCEPT !.P = P]
    ELSE IF "id" \notin DOMAIN P.heap[a] THEN [acc EXCEPT !.P = Fail(P)]
    ELSE [P |-> P,
          replies |-> Put(acc.replies, P.heap[a]["id"], a),
          keys |-> IF P.heap[a]["id"] \in DOMAIN acc.replies THEN acc.keys
                   ELSE Append(acc.keys, P.heap[a]["id"])]

\* CommentManager._process_replies from the i-th comment on.
RECURSIVE _process_replies(_, _, _, _)
_process_replies(acc, comments, parent_comment, i) ==
    IF acc.P.err \/ i > Len(comments) THEN acc
    ELSE _process_replies(
             KeepReply(acc,
                       SetReplyFields(ReplaceUser(acc.P, comments[i]),
                                      comments[i], parent_comment),
                       comments[i]),
             comments, parent_comment, i + 1)

\* A body without the page key gets the empty page.
DefaultPage(P, body) ==
    IF "page" \notin DOMAIN body.meta THEN Result(P, <<<<>>, ReplaceCRLF(body.content)>>)
    ELSE Result(P, <<Strip(body.meta["page"]), ReplaceCRLF(body.content)>>)

\* CommentManager.__parse_comment_body: frontmatter.parse gives the body's
\* metadata and content; val is <<parent_page, body_text>>.
__parse_comment_body(P, body) ==
    IF "page" \notin DOMAIN body.meta THEN Result(Fail(P), <<>>)
    ELSE Result(P, <<Strip(body.meta["page"]), ReplaceCRLF(body.content)>>)

\* issue["page"], issue["body"] and issue["parent"], r being what
\* __parse_comment_body gave.
SetIssueFields(r, a) ==
    IF r.S.err THEN r.S
    ELSE [r.S EXCEPT !.heap[a] =
              Put(Put(Put(@, "page", r.val[1]), "body", r.val[2]), "parent", 0)]

ParseBody(P, a) ==
    IF P.err THEN P
    ELSE IF "body" \notin DOMAIN P.heap[a] THEN Fail(P)
    ELSE SetIssueFields(__parse_comment_body(P, P.heap[a]["body"]), a)

\* The root goes to the front of the page's list.
PrependRoot(comment_mapping, page, id) ==
    IF page \notin DOMAIN comment_mapping THEN Put(comment_mapping, page, <<id>>)
    ELSE Put(comment_mapping, page, <<id>> \o comment_mapping[page])

\* if page not in comment_mapping: comment_mapping[page] = [];
\* comment_mapping[page].append(id).
AppendRoot(comment_mapping, page, id) ==
    IF page \notin DOMAIN comment_mapping THEN Put(comment_mapping, page, <<id>>)
    ELSE Put(comment_mapping, page, Append(comment_mapping[page], id))

\* comment_mapping[issue["page"]].append(issue["id"]).
MapIssue(P, a) ==
    IF P.err THEN P
    ELSE IF "id" \notin DOMAIN P.heap[a] THEN Fail(P)
    ELSE [P EXCEPT !.comment_mapping =
              AppendRoot(@, P.heap[a]["page"], P.heap[a]["id"])]

\* replies = issue["comments"]; del issue["comments"];
\* replies = self._process_replies(replies, issue["id"]).
TakeReplies(P, a) ==
    IF P.err THEN [P |-> P, replies |-> EmptyDict, keys |-> <<>>]
    ELSE IF "comments" \notin DOMAIN P.heap[a]
    THEN [P |-> Fail(P), replies |-> EmptyDict, keys |-> <<>>]
    ELSE _process_replies(
             [P |-> [P EXCEPT !.heap[a] = Del(@, "comments")],
              replies |-> EmptyDict, keys |-> <<>>],
             P.heap[a]["comments"], P.heap[a]["id"], 1)

\* issue["replies"] = list(replies.keys()); processed.update(replies);
\* processed[issue["id"]] = issue, acc being what _process_replies gave.
KeepIssue(acc, a) ==
    IF acc.P.err THEN acc.P
    ELSE [acc.P EXCEPT
              !.heap[a] = Put(@, "replies", acc.keys),
              !.processed = Put(Update(@, acc.replies), acc.P.heap[a]["id"], a)]

\* One turn of the loop of _parse_comments: the issue at address a.
ParseIssue(P, a) ==
    KeepIssue(TakeReplies(MapIssue(ParseBody(ReplaceUser(P, a), a), a), a), a)

RECURSIVE ParseIssues(_, _, _)
ParseIssues(P, comments, i) ==
    IF P.err \/ i > Len(comments) THEN P
    ELSE ParseIssues(ParseIssue(P, comments[i]), comments, i + 1)

\* comment_mapping = {}; processed = {}; the loop over r.val, the issues
\* deepcopy gave.
ParseCopies(r) ==
    ParseIssues([heap |-> r.S.heap, err |-> FALSE,
                 processed |-> EmptyDict, comment_mapping |-> EmptyDict],
                r.val, 1)

\* list(comments.values()): the dicts of the issues map in the order of its
\* keys.
IssueValues(S) == [i \in DOMAIN S.issues_order |-> S.issues[S.issues_order[i]]]

\* CommentManager._parse_comments on the issues map of the client.
_parse_comments(S) == ParseCopies(deepcopy(S, IssueValues(S)))

NoOutput == [ok |-> TRUE, flat |-> EmptyDict, mapping |-> EmptyDict]

\* return processed, comment_mapping: the flat collection holds the dicts
\* themselves, here as they are when the call returns.
Returned(P) ==
    IF P.err THEN [NoOutput EXCEPT !.ok = FALSE]
    ELSE [ok |-> TRUE,
          flat |-> [id \in DOMAIN P.processed |-> P.heap[P.processed[id]]],
          mapping |-> P.comment_mapping]

\* The call is over: its output, and the client with the heap as the call
\* left it.
Parsed(P) ==
    [out |-> Returned(P),
     client |-> Outcome([Snapshot(0) EXCEPT !.heap = P.heap, !.log = last.log],
                        last, last.ret)]

\* _parse_comments(issues) in load_comments, issues being what get_issues
\* returned.
ParseComments ==
    /\ last.op = "get_issues"
    /\ last.ok
    /\ parsed.runs < MaxRuns
    /\ \E post \in {Parsed(_parse_comments(Snapshot(0)))} :
          /\ Commit(post.client)
          /\ parsed' = [runs |-> parsed.runs + 1,
                        first |-> IF parsed.runs = 0 THEN post.out ELSE parsed.first,
                        latest |-> post.out]
    /\ UNCHANGED <<repo, ff, text>>

-----------------------------------------------------------------------------
(* load_comments: get_issues and then _parse_comments, on every repository *)
(* of a bounded family.  Issue ids and comment ids are GitHub's database   *)
(* ids of two kinds of objects: nothing keeps an issue's id apart from a   *)
(* comment's (21 is both here).                                            *)

IssueIds == {11, 12, 21}

CommentIds == {21, 22}

\* The page metadata as written, and a body without the key.
Pages == {<<"/", "a", "/">>, <<"a">>, <<"b", " ">>}

NoMeta == [k \in {} |-> <<>>]

Metas == {PageMeta(page) : page \in Pages} \cup {NoMeta}

\* The threads: the comments of an issue, by id, in the order of the
\* comments endpoint.
Threads == DistinctSeqs(CommentIds, MaxReplies)

CommentOf(id) ==
    IF id = 21 THEN RawComment(21, "bob", <<"t", "CR", "LF">>)
    ELSE RawComment(id, "alice", <<"u">>)

\* A raw object without its user field.
Anonymous(raw) == Del(raw, "user")

\* Which record of a repository has no user field: none, issue 2 or
\* comment 22.
Anonymity == {"none", "issue", "comment"}

Thread(ids, anonymous) ==
    [i \in DOMAIN ids |->
        IF anonymous = "comment" /\ ids[i] = 22 THEN Anonymous(CommentOf(22))
        ELSE CommentOf(ids[i])]

\* Issues 1 and 2 and pull request 3; a comment is on one thread only, the
\* issues' ids differ and at most one record has no user field.
Repositories ==
    {Repository(
         (1 :> RawIssue(1, c.id1, "alice", FrontMatter(c.meta1, <<"x", "CR", "LF", "y">>))
          @@ 2 :> (IF c.anonymous = "issue"
                   THEN Anonymous(RawIssue(2, c.id2, "bob", FrontMatter(c.meta2, <<"y">>)))
                   ELSE RawIssue(2, c.id2, "bob", FrontMatter(c.meta2, <<"y">>)))
          @@ 3 :> RawPullRequest(3, 13, "carol", FrontMatter(PageMeta(<<"b">>), <<"z">>))),
         (1 :> Thread(c.thread1, c.anonymous) @@ 2 :> Thread(c.thread2, c.anonymous)
          @@ 3 :> <<>>)) :
     c \in {d \in [id1 : IssueIds, id2 : IssueIds, meta1 : Metas,
                   meta2 : {PageMeta(<<"a">>), PageMeta(<<"b", " ">>)},
                   thread1 : Threads, thread2 : Threads, anonymous : Anonymity] :
               /\ d.id1 # d.id2
               /\ Range(d.thread1) \cap Range(d.thread2) = {}}}

\* issues = self.api.get_issues() in load_comments, on the fresh client.
LoadIssues(listing) ==
    /\ last.op = "none"
    /\ GetIssues(listing, 0)

InitParse ==
    /\ repo \in Repositories
    /\ heap = EmptyDict
    /\ users = EmptyDict
    /\ nodes = EmptyDict
    /\ issues = EmptyDict
    /\ issues_order = <<>>
    /\ issue_comments = EmptyDict
    /\ user_fetches = [u \in Logins |-> 0]
    /\ comments_done = {}
    /\ last = NoCall
    /\ parsed = NoParse
    /\ ff = NoFilter
    /\ text = NoText

NextParse ==
    \/ \E listing \in Listings : LoadIssues(listing)
    \/ ParseComments

SpecParse == InitParse /\ [][NextParse]_vars

-----------------------------------------------------------------------------
(* The newline normalisation on its own: one body, of every text of a      *)
(* bounded family, stored as a reply's body or as an issue's.              *)

\* The longest body.
MaxBodyLen == 4

Chars == {"CR", "LF", "x"}

Bodies == {<<>>} \cup UNION {[1..k -> Chars] : k \in 1..MaxBodyLen}

\* A frame with the dict d alone, at address 1.
FrameOf(d) ==
    [heap |-> <<d>>, err |-> FALSE, processed |-> EmptyDict,
     comment_mapping |-> EmptyDict]

\* The body of a reply, after _process_replies set its fields.
ReplyBody(P) == P.heap[1]["body"]

\* _process_replies on a comment with the body text.raw.
StoreReplyBody ==
    /\ ~text.done
    /\ text' = [text EXCEPT
                   !.done = TRUE, !.as = "reply",
                   !.stored = ReplyBody(SetReplyFields(FrameOf([body |-> text.raw]), 1, 11))]
    /\ UNCHANGED <<repo, heap, users, nodes, issues, issues_order, issue_comments,
                   user_fetches, comments_done, last, parsed, ff>>

\* The text after the metadata block, as frontmatter.parse gives it, has no
\* white space at its ends.
IsContent(s) == IF s = <<>> THEN TRUE ELSE s[1] = "x" /\ s[Len(s)] = "x"

\* The body of an issue, after _parse_comments set its fields.
IssueBody(P) == P.heap[1]["body"]

\* __parse_comment_body on an issue whose body has the content text.raw.
StoreIssueBody ==
    /\ ~text.done
    /\ IsContent(text.raw)
    /\ text' = [text EXCEPT
                   !.done = TRUE, !.as = "issue",
                   !.stored = IssueBody(ParseBody(
                       FrameOf([body |-> FrontMatter(PageMeta(<<"a">>), text.raw)]), 1))]
    /\ UNCHANGED <<repo, heap, users, nodes, issues, issues_order, issue_comments,
                   user_fetches, comments_done, last, parsed, ff>>

InitBody ==
    /\ repo = TheRepository
    /\ heap = EmptyDict
    /\ users = EmptyDict
    /\ nodes = EmptyDict
    /\ issues = EmptyDict
    /\ issues_order = <<>>
    /\ issue_comments = EmptyDict
    /\ user_fetches = [u \in Logins |-> 0]
    /\ comments_done = {}
    /\ last = NoCall
    /\ parsed = NoParse
    /\ ff = NoFilter
    /\ text \in {[done |-> FALSE, raw |-> raw, as |-> "none", stored |-> <<>>] :
                    raw \in Bodies}

NextBody == StoreReplyBody \/ StoreIssueBody

SpecBody == InitBody /\ [][NextBody]_vars

-----------------------------------------------------------------------------
(* The client's claims, checked under Spec.                                *)

\* The cached records: the issues and the stored comments.
CachedRecords == Range(issues) \cup Range(issue_comments)

\* The records of the caches whose user is the user of login u.
RecordsOf(u) ==
    {a \in CachedRecords :
        /\ "user" \in DOMAIN heap[a]
        /\ heap[a]["user"].tag = "ref"
        /\ heap[heap[a]["user"].addr]["login"] = u}

\* C1: for every login, whatever get_user calls and issue or comment
\* records refer to it, the users endpoint answers for that login at most
\* once, and exactly once as soon as the login is cached; a get_user call
\* that returns gives the very dict the users cache holds, and a call for a
\* login that is cached already sends no request at all.
C1_OneFetchOneInstance ==
    /\ [](\A u \in Logins :
            /\ user_fetches[u] <= 1
            /\ (u \in DOMAIN users) <=> (user_fetches[u] = 1)
            /\ (last.op = "get_user" /\ last.login = u /\ last.ok)
                   => last.ret = <<users[u]>>)
    /\ [][\A u \in Logins :
            (u \in DOMAIN users /\ last'.op = "get_user" /\ last'.login = u)
                => (last'.ok /\ last'.log = <<>> /\ last'.ret = <<users'[u]>>)]_vars

\* A get_user call was served from the cache although records of the caches
\* refer to the same user too.
C1_CachedUserReturned ==
    /\ last.op = "get_user"
    /\ last.ok
    /\ last.log = <<>>
    /\ Cardinality(RecordsOf(last.login)) >= 2
    /\ \A a \in RecordsOf(last.login) : <<heap[a]["user"].addr>> = last.ret

\* C2: once get_issue_comments has returned for an issue number, every
\* later call for that number returns without sending a request.
C2_CommentsCacheHit ==
    [][\A n \in Numbers :
          (n \in comments_done /\ last'.op = "get_issue_comments" /\ last'.number = n)
              => (last'.ok /\ last'.log = <<>>)]_vars

\* The entries of the issues endpoint that carry a pull_request key.
PullRequests == {n \in Numbers : "pull_request" \in DOMAIN repo.issue[n]}

\* C3: a pull request never has a record in the issues cache, in the node
\* index or in the map get_issues returns, and get_issues sends no comments
\* request for its number.
C3_NoPullRequestRecord ==
    \A n \in PullRequests :
        /\ n \notin DOMAIN issues
        /\ repo.issue[n]["node_id"] \notin DOMAIN nodes
        /\ last.op = "get_issues" =>
               /\ \A a \in Range(last.ret) : heap[a]["number"] # n
               /\ \A i \in DOMAIN last.log : last.log[i].path # CommentsPath(n)

\* get_issues returned for a response that lists a pull request after an
\* issue.
C3_PullRequestListed ==
    /\ last.op = "get_issues"
    /\ last.ok
    /\ Len(last.listing) = 2
    /\ last.listing[2] \in PullRequests
    /\ last.ret # <<>>

\* C5: whenever get_issues returns, every issue record of the map it
\* returns has a comments field.
C5_ReturnedIssuesResolved ==
    (last.op = "get_issues" /\ last.ok) =>
        \A a \in Range(last.ret) : "comments" \in DOMAIN heap[a]

\* C6: after get_issues returns, the user of every cached issue and comment
\* record is the very dict the users cache holds under that user's login.
C6_SharedUserInstance ==
    (last.op = "get_issues" /\ last.ok) =>
        \A a \in CachedRecords :
            "user" \in DOMAIN heap[a] =>
                /\ heap[a]["user"].tag = "ref"
                /\ "login" \in DOMAIN heap[heap[a]["user"].addr]
                /\ heap[heap[a]["user"].addr]["login"] \in DOMAIN users
                /\ users[heap[heap[a]["user"].addr]["login"]] = heap[a]["user"].addr

\* get_issues returned and an issue and a comment of its thread have the
\* same user.
C6_UserSharedByRecords ==
    /\ last.op = "get_issues"
    /\ last.ok
    /\ \E n \in DOMAIN issues :
          /\ "comments" \in DOMAIN heap[issues[n]]
          /\ \E c \in Range(heap[issues[n]]["comments"]) :
                heap[c]["user"] = heap[issues[n]]["user"]

\* C16: over any sequence of get_user, get_issue_comments and get_issues
\* calls, failing ones included, a key of nodes, users, issues or
\* issue_comments stays a key: no call removes one.
C16_CachesOnlyGrow ==
    [][/\ DOMAIN nodes \subseteq DOMAIN nodes'
       /\ DOMAIN users \subseteq DOMAIN users'
       /\ DOMAIN issues \subseteq DOMAIN issues'
       /\ DOMAIN issue_comments \subseteq DOMAIN issue_comments']_vars

\* A get_issues call failed on a client that had an issue cached, and added
\* another issue before it failed.
C16_FailedCallKeptKeys ==
    /\ last.op = "get_issues"
    /\ ~last.ok
    /\ Cardinality(DOMAIN issues) = 2
    /\ \E n \in DOMAIN issues : "comments" \notin DOMAIN heap[issues[n]]
    /\ \E n \in DOMAIN issues : "comments" \in DOMAIN heap[issues[n]]

\* C19: between the calls on one client, every record of the issues cache
\* has a comments field and so has every issue record of nodes, whether the
\* last call returned or raised.
C19_NoPartialIssue ==
    /\ \A n \in DOMAIN issues : "comments" \in DOMAIN heap[issues[n]]
    /\ \A k \in DOMAIN nodes :
          "number" \in DOMAIN heap[nodes[k]] => "comments" \in DOMAIN heap[nodes[k]]

-----------------------------------------------------------------------------
(* The claim of _filter_fields, checked under SpecFilter.                  *)

\* C4: the key set of the dict _filter_fields returns is exactly the keys
\* of the raw object that are in the allow-list or in UNIVERSAL_KEYS.
C4_ExactKeySet ==
    (ff.done /\ ff.ok) =>
        ff.keys = (ff.filter_keys \cup UNIVERSAL_KEYS) \cap DOMAIN ff.resp

\* _filter_fields returned for a raw object of which it keeps a universal
\* key and an allowed key, drops two others, and whose allow-list names a
\* key the object lacks.
C4_KeysKeptAndDropped ==
    /\ ff.done
    /\ ff.ok
    /\ {"user", "body"} \subseteq ff.keys
    /\ {"number", "url"} \subseteq DOMAIN ff.resp \ ff.keys
    /\ "labels" \in ff.filter_keys

-----------------------------------------------------------------------------
(* The claims of the comment tree builder, checked under SpecParse.        *)

\* A record of the flat collection that is an issue.
IsIssue(record) == "number" \in DOMAIN record

\* _parse_comments has returned a flat collection and a page index.
HasOutput == parsed.runs >= 1 /\ parsed.latest.ok

\* C7: in the flat collection _parse_comments returns, every issue record
\* has parent 0, and the parent of every other record is the id of an issue
\* record of the collection whose replies list holds that record's id.
C7_ParentChildIntegrity ==
    HasOutput =>
        \A id \in DOMAIN parsed.latest.flat :
            /\ IsIssue(parsed.latest.flat[id]) => parsed.latest.flat[id]["parent"] = 0
            /\ parsed.latest.flat[id]["parent"] # 0 =>
                  /\ parsed.latest.flat[id]["parent"] \in DOMAIN parsed.latest.flat
                  /\ IsIssue(parsed.latest.flat[parsed.latest.flat[id]["parent"]])
                  /\ id \in Range(parsed.latest.flat[parsed.latest.flat[id]["parent"]]["replies"])

\* C8: every issue is in the flat collection under its issue number, its
\* number is a root id of the page index, and the parent of each of its
\* replies is its number.
C8_KeyedByIssueNumber ==
    HasOutput =>
        \A n \in DOMAIN issues :
            /\ n \in DOMAIN parsed.latest.flat
            /\ IsIssue(parsed.latest.flat[n])
            /\ parsed.latest.flat[n]["number"] = n
            /\ \E page \in DOMAIN parsed.latest.mapping :
                  n \in Range(parsed.latest.mapping[page])
            /\ \A c \in Range(heap[issues[n]]["comments"]) :
                  /\ heap[c]["id"] \in DOMAIN parsed.latest.flat
                  /\ parsed.latest.flat[heap[c]["id"]]["parent"] = n

\* The page identifier of the issue number n of the client.
PageOf(n) == Strip(heap[issues[n]]["body"].meta["page"])

\* The ids of the issues of a page in the order of the issues map.
RootsOf(page) ==
    LET OnPage(n) == PageOf(n) = page
        onPage == SelectSeq(issues_order, OnPage)
    IN  [i \in DOMAIN onPage |-> heap[issues[onPage[i]]]["id"]]

\* C9: the page index has an entry for exactly the pages of the issues, and
\* a page's entry lists the ids of all the issues of that page, one entry an
\* issue, in the order get_issues retrieved the issues.
C9_RootsInRetrievalOrder ==
    HasOutput =>
        /\ DOMAIN parsed.latest.mapping = {PageOf(n) : n \in DOMAIN issues}
        /\ \A page \in DOMAIN parsed.latest.mapping :
              parsed.latest.mapping[page] = RootsOf(page)

\* Issue 2 was retrieved before issue 1, and both are on the page "a", which
\* issue 1 writes "/a/": the page's entry has two roots.
C9_TwoRootsOnOnePage ==
    /\ HasOutput
    /\ issues_order = <<2, 1>>
    /\ heap[issues[1]]["body"].meta["page"] = <<"/", "a", "/">>
    /\ heap[issues[2]]["body"].meta["page"] = <<"a">>
    /\ Len(parsed.latest.mapping[<<"a">>]) = 2

\* C10: a second run of _parse_comments on the same issue map gives what
\* the first run gave: the same flat collection and the same page index.
C10_SecondRunSameOutput ==
    parsed.runs >= 2 => parsed.latest = parsed.first

\* _parse_comments returned twice for an issue map with two issues, each
\* with a reply.
C10_TwoRunsWithReplies ==
    /\ parsed.runs = 2
    /\ parsed.latest.ok
    /\ Cardinality(DOMAIN issues) = 2
    /\ \A n \in DOMAIN issues : heap[issues[n]]["comments"] # <<>>
    /\ Cardinality(DOMAIN parsed.latest.flat) = 4

\* The issues of the client whose body has no page key in its metadata.
Pageless == {n \in DOMAIN issues : "page" \notin DOMAIN heap[issues[n]]["body"].meta}

\* C11: when the body of an issue of the input has no page key,
\* _parse_comments raises and returns neither a flat collection nor a page
\* index; and every issue record of a flat collection it does return has a
\* page field, under which the page index lists its id.
C11_PagelessBodyIsFatal ==
    parsed.runs >= 1 =>
        /\ Pageless # {} =>
              /\ ~parsed.latest.ok
              /\ parsed.latest.flat = EmptyDict
              /\ parsed.latest.mapping = EmptyDict
        /\ parsed.latest.ok =>
              \A id \in DOMAIN parsed.latest.flat :
                  IsIssue(parsed.latest.flat[id]) =>
                      /\ "page" \in DOMAIN parsed.latest.flat[id]
                      /\ parsed.latest.flat[id]["page"] \in DOMAIN parsed.latest.mapping
                      /\ id \in Range(parsed.latest.mapping[parsed.latest.flat[id]["page"]])

\* _parse_comments raised on an issue map whose second issue has no page
\* key, the first one having one.
C11_FailedOnSecondIssue ==
    /\ parsed.runs >= 1
    /\ ~parsed.latest.ok
    /\ issues_order = <<2, 1>>
    /\ Pageless = {1}

\* The records of the input: <<n, 0>> for the issue number n and <<n, i>>
\* for the i-th comment of its thread.
InputRecords ==
    {<<n, 0>> : n \in DOMAIN issues}
        \cup UNION {{<<n, i>> : i \in DOMAIN heap[issues[n]]["comments"]} :
                        n \in DOMAIN issues}

\* The id of a record of the input.
InputId(r) ==
    IF r[2] = 0 THEN heap[issues[r[1]]]["id"]
    ELSE heap[heap[issues[r[1]]]["comments"][r[2]]]["id"]

\* C13: the flat collection has one entry per issue and one per reply: as
\* many entries as the input has records, no two records having one id.
C13_OneEntryPerRecord ==
    HasOutput =>
        /\ Cardinality(DOMAIN parsed.latest.flat) = Cardinality(InputRecords)
        /\ \A r, q \in InputRecords : InputId(r) = InputId(q) => r = q

\* C14: a run of _parse_comments, whether it returns or raises, leaves
\* every dict of the client and its four caches as they were; after it the
\* user of every issue is still the dict of the users cache, its body the
\* raw body and its comments field present.
C14_ClientUnchanged ==
    /\ [][parsed'.runs # parsed.runs =>
             /\ heap' = heap
             /\ users' = users
             /\ nodes' = nodes
             /\ issues' = issues
             /\ issues_order' = issues_order
             /\ issue_comments' = issue_comments]_vars
    /\ [](parsed.runs >= 1 =>
             \A n \in DOMAIN issues :
                 /\ "comments" \in DOMAIN heap[issues[n]]
                 /\ "replies" \notin DOMAIN heap[issues[n]]
                 /\ heap[issues[n]]["body"] = repo.issue[n]["body"]
                 /\ "user" \in DOMAIN heap[issues[n]] =>
                        /\ heap[issues[n]]["user"].tag = "ref"
                        /\ heap[issues[n]]["user"].addr \in Range(users))

\* _parse_comments returned for two issues, one of them with two replies.
C14_ParsedThreads ==
    /\ parsed.runs >= 1
    /\ parsed.latest.ok
    /\ Cardinality(DOMAIN issues) = 2
    /\ \E n \in DOMAIN issues : Len(heap[issues[n]]["comments"]) = 2

\* The dict of the client for a record of the input.
InputDict(r) ==
    IF r[2] = 0 THEN heap[issues[r[1]]]
    ELSE heap[heap[issues[r[1]]]["comments"][r[2]]]

\* The records of the input without a user field.
Userless == {r \in InputRecords : "user" \notin DOMAIN InputDict(r)}

\* C15: an issue or comment whose raw object has no user field goes through
\* _filter_fields (get_issues returns, and the record is cached without the
\* field) and through _parse_comments without an error, and is in the flat
\* collection.
C15_AbsentUserNotFatal ==
    (parsed.runs >= 1 /\ Pageless = {} /\ Userless # {}) =>
        /\ last.ok
        /\ parsed.latest.ok
        /\ \A r \in Userless : InputId(r) \in DOMAIN parsed.latest.flat

-----------------------------------------------------------------------------
(* The claim of the failing requests, checked under SpecStatus.            *)

\* The paths of the requests of a log that got a 2xx answer.
Answered(log) == {log[i].path : i \in {j \in DOMAIN log : log[j].ok}}

\* The node ids of the records of the answer to a request, the issues
\* response being `listing`.
NodeIdsOf(path, listing) ==
    IF path.kind = "users" THEN {repo.user[path.login]["node_id"]}
    ELSE IF path.kind = "comments"
    THEN {repo.comments[path.number][i]["node_id"] : i \in DOMAIN repo.comments[path.number]}
    ELSE {repo.issue[n]["node_id"] : n \in Range(listing)}

\* The keys of issue_comments for the records of the answer to a request.
CommentKeysOf(path) ==
    IF path.kind # "comments" THEN {}
    ELSE {<<path.number, repo.comments[path.number][i]["id"]>> :
              i \in DOMAIN repo.comments[path.number]}

\* C12: when a request of a call fails (an exception of the transport or of
\* the JSON decoder, or an answer that is not 2xx), the call raises, the
\* failed request is its last one and was sent once, and the keys the call
\* added to users, issues, issue_comments and nodes are keys of records of
\* its answered requests; no dict without a node_id is kept.
C12_FailedRequestIsFatal ==
    [][(\E i \in DOMAIN last'.log : ~last'.log[i].ok) =>
          /\ ~last'.ok
          /\ {i \in DOMAIN last'.log : ~last'.log[i].ok} = {Len(last'.log)}
          /\ \A i \in 1..(Len(last'.log) - 1) :
                last'.log[i].path # last'.log[Len(last'.log)].path
          /\ (DOMAIN users' \ DOMAIN users) \subseteq
                 {path.login : path \in {q \in Answered(last'.log) : q.kind = "users"}}
          /\ (DOMAIN issues' \ DOMAIN issues) \subseteq
                 (IF IssuesPath \in Answered(last'.log) THEN Range(last'.listing) ELSE {})
          /\ (DOMAIN issue_comments' \ DOMAIN issue_comments) \subseteq
                 UNION {CommentKeysOf(path) : path \in Answered(last'.log)}
          /\ (DOMAIN nodes' \ DOMAIN nodes) \subseteq
                 UNION {NodeIdsOf(path, last'.listing) : path \in Answered(last'.log)}
          /\ \A a \in DOMAIN heap' : "node_id" \in DOMAIN heap'[a]]_vars

\* get_issues raised on an answer that is not 2xx to the comments request
\* of an issue, after the answered issues request whose record it had
\* stored.
C12_ErrorAnswerAfterStores ==
    /\ last.op = "get_issues"
    /\ ~last.ok
    /\ Len(last.log) = 2
    /\ last.log[2].answer = "error"
    /\ last.log[2].path.kind = "comments"
    /\ last.log[2].path.number \in DOMAIN issues
    /\ issue_comments = EmptyDict

\* The entries of the last issues response that are no pull requests.
ListedIssues == {n \in Range(last.listing) : "pull_request" \notin DOMAIN repo.issue[n]}

\* The logins the raw records of a set name.
LoginsOf(records) == {r["user"].login : r \in {q \in records : "user" \in DOMAIN q}}

\* The logins the listed issues name, and those their comments name.
IssueLogins == LoginsOf({repo.issue[n] : n \in ListedIssues})

CommentLogins == LoginsOf(UNION {Range(repo.comments[n]) : n \in ListedIssues})

\* The places of the log of the last call where requests of a kind are.
RequestsOf(kind) == {i \in DOMAIN last.log : last.log[i].path.kind = kind}

\* C21: get_issues on the fresh client, every request answered, returns
\* after 1 + I + U requests, I being the entries of the response that are
\* no pull requests and U the logins those issues and their comments name,
\* and the user of every issue is requested before any comments are.
C21_RequestCount ==
    last.op = "get_issues" =>
        /\ last.ok
        /\ \A i \in DOMAIN last.log : last.log[i].ok
        /\ Len(last.log) =
               1 + Cardinality(ListedIssues) + Cardinality(IssueLogins \cup CommentLogins)
        /\ \A login \in IssueLogins :
              \E i \in RequestsOf("users") :
                  /\ last.log[i].path = UserPath(login)
                  /\ \A j \in RequestsOf("comments") : i < j

\* The response listed pull request 3 and issue 1; the call sent four
\* requests, the last one for the user of a comment of issue 1.
C21_CommentUserFetchedLast ==
    /\ last.op = "get_issues"
    /\ last.listing = <<3, 1>>
    /\ Len(last.log) = 4
    /\ last.log[2].path.kind = "users"
    /\ last.log[3].path = CommentsPath(1)
    /\ last.log[4].path.kind = "users"

\* The ids of the comments of the issue number n of the client, in the
\* order get_issue_comments returned them.
RepliesOf(n) ==
    [i \in DOMAIN heap[issues[n]]["comments"] |->
        heap[heap[issues[n]]["comments"][i]]["id"]]

\* C18: the record of every issue is in the flat collection under the
\* issue's id, with a replies list that is the ids of its comments in the
\* order the endpoint returned them (empty when it has none), with no
\* comments field and with parent 0, and its id is a root of its page.
C18_RepliesInEndpointOrder ==
    HasOutput =>
        \A n \in DOMAIN issues :
            /\ heap[issues[n]]["id"] \in DOMAIN parsed.latest.flat
            /\ IsIssue(parsed.latest.flat[heap[issues[n]]["id"]])
            /\ parsed.latest.flat[heap[issues[n]]["id"]]["number"] = n
            /\ parsed.latest.flat[heap[issues[n]]["id"]]["replies"] = RepliesOf(n)
            /\ "comments" \notin DOMAIN parsed.latest.flat[heap[issues[n]]["id"]]
            /\ parsed.latest.flat[heap[issues[n]]["id"]]["parent"] = 0
            /\ heap[issues[n]]["id"] \in Range(parsed.latest.mapping[PageOf(n)])

\* The places of the page index that list id.
ListedAt(id) ==
    {pi \in UNION {{<<page, i>> : i \in DOMAIN parsed.latest.mapping[page]} :
                       page \in DOMAIN parsed.latest.mapping} :
        parsed.latest.mapping[pi[1]][pi[2]] = id}

\* C20: every id the page index lists under a page is a key of the flat
\* collection whose record is an issue with parent 0 and that page, and
\* every issue record of the flat collection is listed once, under its page.
C20_IndexMatchesFlat ==
    HasOutput =>
        /\ \A page \in DOMAIN parsed.latest.mapping :
              \A id \in Range(parsed.latest.mapping[page]) :
                  /\ id \in DOMAIN parsed.latest.flat
                  /\ IsIssue(parsed.latest.flat[id])
                  /\ parsed.latest.flat[id]["parent"] = 0
                  /\ parsed.latest.flat[id]["page"] = page
        /\ \A id \in DOMAIN parsed.latest.flat :
              IsIssue(parsed.latest.flat[id]) =>
                  /\ Cardinality(ListedAt(id)) = 1
                  /\ \A pi \in ListedAt(id) : pi[1] = parsed.latest.flat[id]["page"]

-----------------------------------------------------------------------------
(* The users a get_issues call caches, checked under SpecStatus.           *)

\* The logins the non-pull-request entries of the last issues response and
\* their comments name.
ReferencedLogins == IssueLogins \cup CommentLogins

\* The logins the last call requested.
RequestedLogins == {last.log[i].path.login : i \in RequestsOf("users")}

\* C22: a get_issues call that returns adds to the users cache exactly the
\* logins the non-pull-request entries of its response and their comments
\* name, and requests only those of them the cache did not have: a user
\* only a pull request or its comments name is neither fetched nor cached.
C22_OnlyReferencedUsersCached ==
    [][(last'.op = "get_issues" /\ last'.ok) =>
          /\ DOMAIN users' = DOMAIN users \cup ReferencedLogins'
          /\ RequestedLogins' = ReferencedLogins' \ DOMAIN users]_vars

\* get_issues returned for a response that lists pull request 3, whose
\* user and whose commenter is carol: the cache has users, and not carol.
C22_PullRequestUserNotCached ==
    /\ last.op = "get_issues"
    /\ last.ok
    /\ 3 \in Range(last.listing)
    /\ ListedIssues # {}
    /\ repo.issue[3]["user"].login = "carol"
    /\ DOMAIN users = ReferencedLogins
    /\ "carol" \notin DOMAIN users

-----------------------------------------------------------------------------
(* The claim of the newline normalisation, checked under SpecBody.         *)

\* C17: whatever the body of an issue or of a reply is made of, the body
\* the tree builder stores has no CR followed by LF.
C17_NoCRLFStored ==
    text.done =>
        \A i \in 1..(Len(text.stored) - 1) :
            ~(text.stored[i] = "CR" /\ text.stored[i + 1] = "LF")

====
